---- MODULE Spec2Model ----
(***************************************************************************)
(* Model of App.view.base.View (src/js/view/base/View.js): the lifecycle   *)
(* of a small tree of views (render, clear, show, hide, disable, enable,   *)
(* destroy), the template/data setters and the DOM the views write to.     *)
(*                                                                         *)
(* The tree is a root view "r" (elPath '#root') whose items are the two    *)
(* reusable views "a" and "b" (elPath 'auto').  Every public method is one *)
(* action that runs the whole synchronous call, nested calls included.     *)
(* The markup a template produces is taken to consist of elements only,    *)
(* and only the root's templates contain 'innerContainer' placeholders.    *)
(***************************************************************************)
EXTENDS Integers, Sequences, FiniteSets, TLC

\* ------------------------------------------------------------------ bounds
\* largest identifier the allocator may hand out in a run
MaxId == 4
\* largest number of before-hooks that return a non-approving value in one call
MaxVetoes == 1
\* largest number of markup copies one element may hold before render is no longer called
MaxCopies == 2
\* largest number of calls in a run
MaxOps == 4
\* longest items list a view declares
MaxItems == 2

\* ------------------------------------------------------------ vocabulary
Nodes == {"r", "a", "b"}
Hole == "hole"
NullItems == <<"null">>
Undefined == "undefined"
AutoIncrementId == "auto"
DefaultDisplay == "block"
\* the display the page's style sheet gives the '#root' elements
RootDisplay == "grid"
Ops == {"render", "clear", "show", "hide", "disable", "enable", "destroy"}

\* App.template.*: the template classes of the application and their 'data' strings
TemplateNames == {"Page", "Narrow", "Leaf", "Blank", "NoData"}
TemplateString(name) ==
    CASE name = "Page" -> "P2"
      [] name = "Narrow" -> "P1"
      [] name = "Leaf" -> "L0"
      [] name = "Blank" -> ""
      [] OTHER -> Undefined

\* number of class='innerContainer' placeholders in the markup of a template string
SlotCount(t) == CASE t = "P2" -> 2 [] t = "P1" -> 1 [] OTHER -> 0

\* the template strings that read the variable 'title'
RefersToTitle(t) == t = "P2"

\* values given to setData: null, two key/value maps, and a number
DataValues == {"null", "X", "Y", "num"}
isObject(d) == d \in {"X", "Y"}
isString(v) == v # Undefined
isArray(it) == it # NullItems

VARIABLES
    elPath,         \* configs.elPath of each view
    template,       \* configs.template of each view
    anchors,        \* how many elements of the page match '#root'
    rendered,       \* this.rendered
    el,             \* this.el: the sequence of elements the jQuery handle holds
    tpl,            \* this._tpl
    templateData,   \* this._templateData
    displayCssValue,\* this._displayCssValue
    items,          \* this.items
    destroyed,      \* the view has un-delegated its events in destroy()
    dom,            \* the elements of the page and of detached fragments still referenced
    currentId,      \* App.view.base.View._currentId
    last,           \* the call made by the last step and what it returned
    log,            \* the notifications and hook calls of the last step, in order
    calls,          \* how many calls the application has made
    preHide,        \* the display values before a hide() that ran to its end, kept until
                    \* the call after it has returned
    itemsConfig,    \* configs.items of the root, as declared
    viewMap,        \* this._viewMap of the root
    itemIdMap       \* this._itemIdMap of the root

vars == <<elPath, template, anchors, rendered, el, tpl, templateData, displayCssValue,
          items, destroyed, dom, currentId, last, log, calls, preHide,
          itemsConfig, viewMap, itemIdMap>>

\* --------------------------------------------------------------- helpers
Range(f) == {f[i] : i \in DOMAIN f}

\* the state the methods read and write, threaded through a call
Cur ==
    [rendered |-> rendered, el |-> el, tpl |-> tpl, templateData |-> templateData,
     displayCssValue |-> displayCssValue, items |-> items, destroyed |-> destroyed,
     dom |-> dom, currentId |-> currentId, log |-> <<>>, thrown |-> FALSE, ret |-> "none"]

\* this.trigger(name, ...)
trigger(s, n, ev, what) == [s EXCEPT !.log = Append(@, <<n, ev, what>>)]

\* a call of one of the overridable on* methods, with the value it returns
hook(s, n, name, v) == [s EXCEPT !.log = Append(@, <<n, name, v>>)]

\* a method writes to the element of its own view: the write takes its place in
\* the order of the call
effect(s, n, what) == [s EXCEPT !.log = Append(@, <<n, what, "">>)]

\* throw: the call and all its callers are left at once
throw(s, n, what) == [s EXCEPT !.log = Append(@, <<n, "throw", what>>), !.thrown = TRUE, !.ret = "throw"]

return(s, v) == [s EXCEPT !.ret = v]

\* a check that only looks for false
ApprovedUnlessFalse(v) == v # "false"

\* approved === undefined || approved === true
Approved(v) == v = Undefined \/ v = "true"

\* ------------------------------------------------------------------- DOM
AnchorIds == IF anchors = 2 THEN {-1, -2} ELSE IF anchors = 1 THEN {-1} ELSE {}

\* the elements directly inside element e that carry the container class
SlotsOf(d, e) == UNION {Range(d[e].copies[i].slots) : i \in DOMAIN d[e].copies}

RECURSIVE Attached(_, _)
Attached(d, e) ==
    \/ e \in AnchorIds
    \/ \E p \in DOMAIN d : e \in SlotsOf(d, p) /\ Attached(d, p)

\* selectors: a css path of the page, or '#view-' + k
NoQuery == <<Undefined, 0>>
Path(p) == <<p, 0>>
ViewId(k) == <<"#view-", k>>

\* $(selector): the elements of the page that match; $(null) is empty
Query(s, sel) ==
    CASE sel[1] = "#root" -> IF anchors = 2 THEN <<-1, -2>> ELSE IF anchors = 1 THEN <<-1>> ELSE <<>>
      [] sel[1] = "#view-" ->
            IF sel[2] \in DOMAIN s.dom /\ Attached(s.dom, sel[2]) THEN <<sel[2]>> ELSE <<>>
      [] OTHER -> <<>>

\* el.append(markup): one more copy of the markup in every element of the handle
Markup(t, data) ==
    [tpl |-> t, data |-> IF RefersToTitle(t) THEN data ELSE "-",
     slots |-> [i \in 1..SlotCount(t) |-> 0]]
append(s, h, m) ==
    [s EXCEPT !.dom = [e \in DOMAIN @ |->
        IF e \in Range(h) THEN [@[e] EXCEPT !.copies = Append(@, m)] ELSE @[e]]]

\* el.children().remove(): every element of the handle loses its content
removeChildren(s, h) ==
    [s EXCEPT !.dom = [e \in DOMAIN @ |->
        IF e \in Range(h) THEN [@[e] EXCEPT !.copies = <<>>] ELSE @[e]]]

\* el.find('.' + containerCls): the placeholders, in document order, as places
\* <<element, copy, slot>>
RECURSIVE SlotPlaces(_, _, _)
SlotPlaces(e, c, k) == IF k = 0 THEN <<>> ELSE Append(SlotPlaces(e, c, k - 1), <<e, c, k>>)
RECURSIVE CopyPlaces(_, _, _)
CopyPlaces(d, e, c) ==
    IF c = 0 THEN <<>>
    ELSE CopyPlaces(d, e, c - 1) \o SlotPlaces(e, c, Len(d[e].copies[c].slots))
RECURSIVE find(_, _)
find(d, h) ==
    IF h = <<>> THEN <<>>
    ELSE CopyPlaces(d, Head(h), Len(d[Head(h)].copies)) \o find(d, Tail(h))

\* el.css('display'): the value of the first element of the handle
cssGet(s, h) == IF h = <<>> THEN Undefined ELSE s.dom[Head(h)].disp
\* el.css('display', v): sets every element of the handle; undefined sets nothing
cssSet(s, h, v) ==
    IF v = Undefined THEN s
    ELSE [s EXCEPT !.dom = [e \in DOMAIN @ |->
            IF e \in Range(h) THEN [@[e] EXCEPT !.disp = v] ELSE @[e]]]

\* $(container).attr('id', innerId): the placeholder at place pl gets the id; an
\* element that had another id keeps its content and every handle that holds it
attrId(s, pl, id) ==
    IF id = 0 THEN s
    ELSE LET e == pl[1]
             old == s.dom[e].copies[pl[2]].slots[pl[3]]
             d1 == [s.dom EXCEPT ![e].copies[pl[2]].slots[pl[3]] = id]
             d2 == [x \in (DOMAIN d1 \ {old}) \cup {id} |->
                      IF x # id THEN d1[x]
                      ELSE IF old # 0 THEN d1[old]
                      ELSE [copies |-> <<>>, disp |-> DefaultDisplay]]
             rename(h) == [i \in DOMAIN h |-> IF h[i] = old /\ old # 0 THEN id ELSE h[i]]
         IN [s EXCEPT !.dom = d2, !.el = [n \in Nodes |-> rename(@[n])]]

\* elements nobody can reach any more are forgotten
RECURSIVE Inside(_, _, _)
Inside(d, e, held) ==
    \/ e \in held
    \/ \E p \in DOMAIN d : e \in SlotsOf(d, p) /\ Inside(d, p, held)
Collect(s) ==
    LET held == AnchorIds \cup UNION {Range(s.el[n]) : n \in Nodes}
    IN [s EXCEPT !.dom = [e \in {x \in DOMAIN @ : Inside(@, x, held)} |-> @[e]]]

\* ------------------------------------------------------------- the view
\* the allocator hands out the number it handed out last
nextIdRepeated(s) == IF s.currentId = 0 THEN 1 ELSE s.currentId

\* _id(): 'view-' + (++_currentId)
nextId(s) == s.currentId + 1

\* _id(): the counter keeps the number and the identifier goes to the caller
allocate(s, n, k) == [s EXCEPT !.currentId = k, !.log = Append(@, <<n, "_id", "", k>>)]

\* _updateEl(containerQuery); the binding of the Backbone events (_initEvents,
\* delegateEvents) changes nothing the methods read and is left out
updateEl(s, n, cq) ==
    IF Len(s.el[n]) = 0
    THEN LET q == IF cq # NoQuery THEN Query(s, cq)
                  ELSE Query(s, IF elPath[n] = AutoIncrementId THEN Path("null") ELSE Path(elPath[n]))
             s1 == [s EXCEPT !.el[n] = q]
         IN IF Len(q) > 1 THEN trigger(s1, n, "error", "duplicate ids") ELSE s1
    ELSE IF cq # NoQuery THEN [s EXCEPT !.el[n] = Query(s, cq)]
    ELSE s

\* N13.ns(templateNs + '.' + name, false)
ns(name) == name \in TemplateNames

\* _.template(tpl, data) raises a fault when the template reads a variable the data lacks
TemplateFaults(t, data) == RefersToTitle(t) /\ ~isObject(data)

RECURSIVE render(_, _, _, _), clear(_, _, _), clearItems(_, _, _, _),
          renderItems(_, _, _), renderItemsFrom(_, _, _, _, _), renderRest(_, _, _)

\* clear(): the loop over the items, from index i on
clearItems(s, n, i, hv) ==
    IF s.thrown \/ i > Len(s.items[n]) THEN s
    ELSE IF s.items[n][i] = Hole THEN throw(s, n, "TypeError")
    ELSE clearItems(clear(s, s.items[n][i], hv), n, i + 1, hv)

\* the view removes its own content before it clears its items
clearOwnFirst(s, n, hv) ==
    IF ~s.rendered[n] THEN s
    ELSE LET v == hv[<<n, "clear">>]
             s1 == hook(trigger(s, n, "beforeclear", ""), n, "onBeforeClear", v)
         IN IF ~Approved(v) THEN s1
            ELSE LET s2 == effect(removeChildren(s1, s1.el[n]), n, "children.remove")
                     s3 == [s2 EXCEPT !.rendered[n] = FALSE]
                     s4 == IF isArray(s3.items[n]) THEN clearItems(s3, n, 1, hv) ELSE s3
                 IN IF s4.thrown THEN s4
                    ELSE trigger(hook(s4, n, "onAfterClear", ""), n, "clear", "")

\* clear()
clear(s, n, hv) ==
    IF ~s.rendered[n] THEN s
    ELSE LET v == hv[<<n, "clear">>]
             s1 == hook(trigger(s, n, "beforeclear", ""), n, "onBeforeClear", v)
         IN IF ~Approved(v) THEN s1
            ELSE LET s2 == IF isArray(s1.items[n]) THEN clearItems(s1, n, 1, hv) ELSE s1
                 IN IF s2.thrown THEN s2
                    ELSE LET s3 == effect(removeChildren(s2, s2.el[n]), n, "children.remove")
                             s4 == [s3 EXCEPT !.rendered[n] = FALSE]
                         IN trigger(hook(s4, n, "onAfterClear", ""), n, "clear", "")

\* the items take the placeholders from the last one backwards
RECURSIVE renderItemsFromLastSlot(_, _, _, _, _)
renderItemsFromLastSlot(s, n, cs, i, hv) ==
    IF s.thrown \/ i > Len(s.items[n]) THEN s
    ELSE LET item == s.items[n][i] IN
         IF item = Hole THEN throw(s, n, "TypeError")
         ELSE LET auto == elPath[item] = AutoIncrementId
                  innerId == IF auto THEN nextId(s) ELSE 0
                  s1 == IF auto THEN allocate(s, n, innerId) ELSE s
                  s2 == IF i <= Len(cs) THEN attrId(s1, cs[Len(cs) + 1 - i], innerId) ELSE s1
                  s3 == render(s2, item, IF auto THEN ViewId(innerId) ELSE NoQuery, hv)
              IN renderItemsFromLastSlot(s3, n, cs, i + 1, hv)

\* _renderItems(): the loop over the items, from index i on; cs are the
\* placeholders found before the loop
renderItemsFrom(s, n, cs, i, hv) ==
    IF s.thrown \/ i > Len(s.items[n]) THEN s
    ELSE LET item == s.items[n][i] IN
         IF item = Hole THEN throw(s, n, "TypeError")
         ELSE LET auto == elPath[item] = AutoIncrementId
                  innerId == IF auto THEN nextId(s) ELSE 0
                  s1 == IF auto THEN allocate(s, n, innerId) ELSE s
                  s2 == IF i <= Len(cs) THEN attrId(s1, cs[i], innerId) ELSE s1
                  s3 == render(s2, item, IF auto THEN ViewId(innerId) ELSE NoQuery, hv)
              IN renderItemsFrom(s3, n, cs, i + 1, hv)

\* the fault is raised only when no placeholder is found at all
renderItemsSomeContainer(s, n, hv) ==
    IF isArray(s.items[n]) /\ Len(s.items[n]) > 0
    THEN LET containers == find(s.dom, s.el[n])
         IN IF Len(containers) < 1
            THEN throw(s, n, "not enough containers")
            ELSE renderItemsFrom(s, n, containers, 1, hv)
    ELSE s

\* _renderItems()
renderItems(s, n, hv) ==
    IF isArray(s.items[n]) /\ Len(s.items[n]) > 0
    THEN LET containers == find(s.dom, s.el[n])
         IN IF Len(containers) < Len(s.items[n])
            THEN throw(s, n, "not enough containers")
            ELSE renderItemsFrom(s, n, containers, 1, hv)
    ELSE s

\* render(): the template string and the data are usable
validTemplateData(s, n) ==
    ~(\/ s.tpl[n] = ""
      \/ ~isString(s.tpl[n])
      \/ ~isObject(s.templateData[n]) /\ s.templateData[n] # "null")

\* a refused render that answers false
renderRefusedFalse(s) == return(s, "false")

\* render(): what a render that onBeforeRender refused returns
renderRefused(s) == return(s, "this")

\* the view is marked rendered before its items are rendered
renderRestMarkedFirst(s, n, hv) ==
    LET s5 == renderItems([s EXCEPT !.rendered[n] = TRUE], n, hv)
    IN IF s5.thrown THEN s5
       ELSE return(trigger(hook(s5, n, "onAfterRender", ""), n, "render", ""), "this")

\* render(): the items are rendered, then the view is marked rendered
renderRest(s, n, hv) ==
    LET s5 == renderItems(s, n, hv)
    IN IF s5.thrown THEN s5
       ELSE LET s6 == [s5 EXCEPT !.rendered[n] = TRUE]
            IN return(trigger(hook(s6, n, "onAfterRender", ""), n, "render", ""), "this")

\* render(containerQuery)
render(s, n, cq, hv) ==
    IF elPath[n] = ""
    THEN return(trigger(s, n, "error", "elPath is not set"), "false")
    ELSE IF ~(template[n] = "null" \/ ns(template[n]))
    THEN return(trigger(s, n, "error", "invalid template"), "false")
    ELSE LET s1 == updateEl(s, n, cq) IN
      IF Len(s1.el[n]) = 0
      THEN return(trigger(s1, n, "error", "root element not found"), "false")
      ELSE LET v == hv[<<n, "render">>]
               s2 == hook(trigger(s1, n, "beforerender", ""), n, "onBeforeRender", v)
           IN IF ~Approved(v) THEN renderRefused(s2)
              ELSE LET s3 == clear(s2, n, hv) IN
                IF s3.thrown THEN s3
                ELSE IF ~validTemplateData(s3, n)
                THEN return(trigger(s3, n, "error", "invalid template data"), "false")
                ELSE IF TemplateFaults(s3.tpl[n], s3.templateData[n])
                THEN return(trigger(s3, n, "error", "template fault"), "false")
                ELSE renderRest(effect(append(s3, s3.el[n], Markup(s3.tpl[n], s3.templateData[n])),
                                       n, "el.append"),
                                n, hv)

RECURSIVE show(_, _, _), showItems(_, _, _, _), hide(_, _, _), hideItems(_, _, _, _),
          disable(_, _, _), disableItems(_, _, _, _), enable(_, _, _), enableItems(_, _, _, _),
          destroy(_, _, _), destroyItems(_, _, _, _), destroyApproved(_, _, _)

showItems(s, n, i, hv) ==
    IF s.thrown \/ i > Len(s.items[n]) THEN s
    ELSE IF s.items[n][i] = Hole THEN throw(s, n, "TypeError")
    ELSE showItems(show(s, s.items[n][i], hv), n, i + 1, hv)

\* show()
show(s, n, hv) ==
    IF ~s.rendered[n] THEN s
    ELSE LET v == hv[<<n, "show">>]
             s1 == hook(trigger(s, n, "beforeshow", ""), n, "onBeforeShow", v)
         IN IF ~Approved(v) THEN s1
            ELSE LET s2 == IF isArray(s1.items[n]) THEN showItems(s1, n, 1, hv) ELSE s1
                 IN IF s2.thrown THEN s2
                    ELSE LET s3 == cssSet(s2, s2.el[n], s2.displayCssValue[n])
                         IN trigger(hook(s3, n, "onAfterShow", ""), n, "show", "")

hideItems(s, n, i, hv) ==
    IF s.thrown \/ i > Len(s.items[n]) THEN s
    ELSE IF s.items[n][i] = Hole THEN throw(s, n, "TypeError")
    ELSE hideItems(hide(s, s.items[n][i], hv), n, i + 1, hv)

\* the value kept is the default, whatever the element shows
keepDisplayDefault(s, n) == [s EXCEPT !.displayCssValue[n] = DefaultDisplay]

\* hide(): this._displayCssValue = this.el.css('display')
keepDisplay(s, n) == [s EXCEPT !.displayCssValue[n] = cssGet(s, s.el[n])]

\* the view is hidden whether it is rendered or not
hideUnrendered(s, n, hv) ==
    LET v == hv[<<n, "hide">>]
        s1 == hook(trigger(s, n, "beforehide", ""), n, "onBeforeHide", v)
    IN IF ~Approved(v) THEN s1
       ELSE LET s2 == IF isArray(s1.items[n]) THEN hideItems(s1, n, 1, hv) ELSE s1
            IN IF s2.thrown THEN s2
               ELSE LET s3 == keepDisplay(s2, n)
                        s4 == effect(cssSet(s3, s3.el[n], "none"), n, "css.none")
                    IN trigger(hook(s4, n, "onAfterHide", ""), n, "hide", "")

\* hide()
hide(s, n, hv) ==
    IF ~s.rendered[n] THEN s
    ELSE LET v == hv[<<n, "hide">>]
             s1 == hook(trigger(s, n, "beforehide", ""), n, "onBeforeHide", v)
         IN IF ~Approved(v) THEN s1
            ELSE LET s2 == IF isArray(s1.items[n]) THEN hideItems(s1, n, 1, hv) ELSE s1
                 IN IF s2.thrown THEN s2
                    ELSE LET s3 == keepDisplay(s2, n)
                             s4 == effect(cssSet(s3, s3.el[n], "none"), n, "css.none")
                         IN trigger(hook(s4, n, "onAfterHide", ""), n, "hide", "")

disableItems(s, n, i, hv) ==
    IF s.thrown \/ i > Len(s.items[n]) THEN s
    ELSE IF s.items[n][i] = Hole THEN throw(s, n, "TypeError")
    ELSE disableItems(disable(s, s.items[n][i], hv), n, i + 1, hv)

\* disable()
disable(s, n, hv) ==
    IF ~s.rendered[n] THEN s
    ELSE LET v == hv[<<n, "disable">>]
             s1 == hook(trigger(s, n, "beforedisable", ""), n, "onBeforeDisable", v)
         IN IF ~Approved(v) THEN s1
            ELSE LET s2 == IF isArray(s1.items[n]) THEN disableItems(s1, n, 1, hv) ELSE s1
                 IN IF s2.thrown THEN s2
                    ELSE trigger(hook(s2, n, "onAfterDisable", ""), n, "disable", "")

enableItems(s, n, i, hv) ==
    IF s.thrown \/ i > Len(s.items[n]) THEN s
    ELSE IF s.items[n][i] = Hole THEN throw(s, n, "TypeError")
    ELSE enableItems(enable(s, s.items[n][i], hv), n, i + 1, hv)

\* enable(cssPaths)
enable(s, n, hv) ==
    IF ~s.rendered[n] THEN s
    ELSE LET v == hv[<<n, "enable">>]
             s1 == hook(trigger(s, n, "beforeenable", ""), n, "onBeforeEnable", v)
         IN IF ~Approved(v) THEN s1
            ELSE LET s2 == IF isArray(s1.items[n]) THEN enableItems(s1, n, 1, hv) ELSE s1
                 IN IF s2.thrown THEN s2
                    ELSE trigger(hook(s2, n, "onAfterEnable", ""), n, "enable", "")

\* destroy(): the loop over the items, from index i on
destroyItems(s, n, i, hv) ==
    IF s.thrown \/ i > Len(s.items[n]) THEN s
    ELSE IF s.items[n][i] = Hole THEN throw(s, n, "TypeError")
    ELSE LET s1 == destroy(s, s.items[n][i], hv)
         IN destroyItems(IF s1.thrown THEN s1 ELSE [s1 EXCEPT !.items[n][i] = Hole],
                         n, i + 1, hv)

\* destroy(): this.undelegateEvents()
undelegateEvents(s, n) == [trigger(s, n, "undelegateEvents", "") EXCEPT !.destroyed[n] = TRUE]

\* the view un-delegates its events before it destroys its items
destroyApprovedEventsFirst(s, n, hv) ==
    LET s2 == undelegateEvents(clear(trigger(s, n, "observe.destroy", ""), n, hv), n) IN
    IF s2.thrown THEN s2
    ELSE LET s3 == IF isArray(s2.items[n]) THEN destroyItems(s2, n, 1, hv) ELSE s2
         IN IF s3.thrown THEN s3
            ELSE trigger(hook(s3, n, "onAfterDestroy", ""), n, "destroy", "")

\* destroy(): what an approved destroy does
destroyApproved(s, n, hv) ==
    LET s2 == clear(trigger(s, n, "observe.destroy", ""), n, hv) IN
    IF s2.thrown THEN s2
    ELSE LET s3 == IF isArray(s2.items[n]) THEN destroyItems(s2, n, 1, hv) ELSE s2
         IN IF s3.thrown THEN s3
            ELSE LET s4 == undelegateEvents(s3, n)
                 IN trigger(hook(s4, n, "onAfterDestroy", ""), n, "destroy", "")

\* destroy()
destroy(s, n, hv) ==
    LET v == hv[<<n, "destroy">>]
        s1 == hook(trigger(s, n, "beforedestroy", ""), n, "onBeforeDestroy", v)
    IN IF ~Approved(v) THEN s1 ELSE destroyApproved(s1, n, hv)

\* setTemplate(template)
setTemplate(s, n, name) ==
    IF ns(name) THEN [s EXCEPT !.tpl[n] = TemplateString(name)] ELSE s

\* setData(data)
setData(s, n, data) == [s EXCEPT !.templateData[n] = data]

\* setItems(items)
setItems(s, n, its) == [s EXCEPT !.items[n] = its]

\* configs.data of each view class: the page gives its template the title, the
\* other classes leave the default, null
data == [n \in Nodes |-> IF n = "r" /\ template[n] = "Page" THEN "X" ELSE "null"]

\* ----------------------------------------------------------- the items
\* App.view.*: the view classes of the application, and the instance that
\* new makes of each; an items list names a class at most once
ViewNames == {"A", "B"}
New(cl) == IF cl = "A" THEN "a" ELSE "b"
\* the itemId the configs of a view class give its instances
ClassItemId(cl) == IF cl = "B" THEN "side" ELSE Undefined

\* the entries of an items list: a class name, a configuration with 'cl' and
\* perhaps 'itemId', or a number
StringItem(cl) == [type |-> "string", cl |-> cl, itemId |-> Undefined]
ObjectItem(cl, id) == [type |-> "object", cl |-> cl, itemId |-> id]
NumberItem == [type |-> "number", cl |-> Undefined, itemId |-> Undefined]
\* String(item) of a configuration: the property name viewMap[item] writes
ObjectKey == "[object Object]"

\* configs.items: null, one class name, or a list
NullConfig == [kind |-> "null", of |-> <<>>]
StringConfig(cl) == [kind |-> "string", of |-> <<StringItem(cl)>>]
ArrayConfig(list) == [kind |-> "array", of |-> list]

\* objects used as maps
EmptyMap == [k \in {} |-> Undefined]
Put(m, k, v) == [x \in DOMAIN m \cup {k} |-> IF x = k THEN v ELSE m[x]]
Get(m, k) == IF k \in DOMAIN m THEN m[k] ELSE Undefined

\* view.itemId after new Class(item): the configuration's, else the class's
itemIdOf(item) ==
    IF item.type = "object" /\ item.itemId # Undefined THEN item.itemId ELSE ClassItemId(item.cl)

\* _createItems(): one entry that is a string or an object; new (undefined)()
\* raises a TypeError
createItem(c, item) ==
    IF item.cl \notin ViewNames
    THEN [c EXCEPT !.thrown = TRUE, !.log = Append(@, <<"r", "throw", "TypeError">>)]
    ELSE LET view == New(item.cl)
             c1 == [c EXCEPT !.instances = Append(@, view),
                             !.viewMap = Put(@, IF item.type = "string" THEN item.cl ELSE ObjectKey, view)]
         IN IF itemIdOf(item) # Undefined
            THEN [c1 EXCEPT !.itemIdMap = Put(@, itemIdOf(item), view)] ELSE c1

\* _createItems(): the loop over the entries, from index i on
RECURSIVE createItemsFrom(_, _, _)
createItemsFrom(c, list, i) ==
    IF c.thrown \/ i > Len(list) THEN c
    ELSE IF list[i].type \in {"string", "object"}
    THEN createItemsFrom(createItem(c, list[i]), list, i + 1)
    ELSE createItemsFrom([c EXCEPT !.log = Append(@, <<"r", "debug", "">>)], list, i + 1)

\* _createItems(): the items, the two maps, the notifications, and whether it raised
createItems(cfg) ==
    LET c0 == [instances |-> <<>>, viewMap |-> EmptyMap, itemIdMap |-> EmptyMap,
               log |-> <<>>, thrown |-> FALSE]
        c == createItemsFrom(c0, cfg.of, 1)
    IN IF cfg.kind = "null" THEN [items |-> NullItems] @@ c0
       ELSE [items |-> c.instances] @@ c

\* the arguments of getItem: a string, or a position
Key(k) == <<k, 0>>
Index(i) == <<"#number", i>>

\* getItem(id)
getItem(its, vm, im, id) ==
    IF id[1] # "#number"
    THEN IF Get(im, id[1]) # Undefined THEN Get(im, id[1])
         ELSE IF Get(vm, id[1]) # Undefined THEN Get(vm, id[1])
         ELSE "null"
    ELSE IF ~isArray(its) THEN "throw"
    ELSE IF id[2] + 1 \in DOMAIN its /\ its[id[2] + 1] # Hole THEN its[id[2] + 1]
    ELSE "null"

\* ---------------------------------------------------------- the program
\* the views a call on n may reach
Subtree(n) == IF n = "r" THEN Nodes ELSE {n}

\* the values the before-hooks of each view class return: to approve, undefined
\* (N13.emptyFn) or true; to refuse, false or 0
Approves(n) == IF n = "b" THEN "true" ELSE Undefined
Refuses(n) == IF n = "a" THEN "zero" ELSE "false"

\* what the before-hooks return during one call: every hook approves, but for at
\* most MaxVetoes hooks of the operations ops on the views nodes
HookResults(nodes, ops) ==
    {[k \in Nodes \X Ops |-> IF k \in V THEN Refuses(k[1]) ELSE Approves(k[1])] :
        V \in {W \in SUBSET (nodes \X ops) : Cardinality(W) <= MaxVetoes}}

\* no call has been made, or the application has taken note of the last result
Idle == [op |-> "idle", node |-> "r", arg |-> NoQuery, ret |-> "none"]

\* the state after construction: initPrivates, initPublics, afterInit, init, with
\* autoRender at its default, false (an autoRender view makes render() its first
\* call).  The root is a page with two items, or a single view with template
\* null or 'Leaf' and no items
Init ==
    /\ elPath = [n \in Nodes |-> IF n = "r" THEN "#root" ELSE AutoIncrementId]
    /\ \E c \in {<<"Page", ArrayConfig(<<StringItem("A"), StringItem("B")>>)>>,
                <<"null", NullConfig>>, <<"Leaf", NullConfig>>} :
         /\ template = [n \in Nodes |-> IF n = "r" THEN c[1] ELSE "Leaf"]
         /\ itemsConfig = c[2]
         /\ items = [n \in Nodes |-> IF n = "r" THEN createItems(c[2]).items ELSE NullItems]
    /\ anchors \in {1, 2}
    /\ rendered = [n \in Nodes |-> FALSE]
    /\ el = [n \in Nodes |-> <<>>]
    /\ tpl = [n \in Nodes |-> IF ns(template[n]) THEN TemplateString(template[n]) ELSE ""]
    /\ templateData = [n \in Nodes |-> "null"]
    /\ displayCssValue = [n \in Nodes |-> "block"]
    /\ destroyed = [n \in Nodes |-> FALSE]
    /\ dom = [e \in AnchorIds |-> [copies |-> <<>>, disp |-> RootDisplay]]
    /\ calls = 0
    /\ currentId = 0
    /\ last = Idle
    /\ log = <<>>
    /\ preHide = <<>>
    /\ viewMap = createItems(itemsConfig).viewMap
    /\ itemIdMap = createItems(itemsConfig).itemIdMap

\* a call returns: its effects become the state of the program.  The application
\* makes its calls one after the other
Done(s0, op, n, arg) ==
    LET s == Collect(s0) IN
    /\ last = Idle
    /\ calls < MaxOps
    /\ calls' = calls + 1
    /\ rendered' = s.rendered
    /\ el' = s.el
    /\ tpl' = s.tpl
    /\ templateData' = s.templateData
    /\ displayCssValue' = s.displayCssValue
    /\ items' = s.items
    /\ destroyed' = s.destroyed
    /\ dom' = s.dom
    /\ currentId' = s.currentId
    /\ log' = s.log
    /\ last' = [op |-> op, node |-> n, arg |-> arg, ret |-> s.ret]
    /\ preHide' = IF /\ op = "hide" /\ rendered[n] /\ s.log[Len(s.log)] = <<n, "hide", "">>
                      /\ \A i \in DOMAIN s.log : s.log[i][3] \in {"", Undefined, "true"}
                   THEN <<[node |-> n, rendered |-> rendered,
                           display |-> [m \in Nodes |-> cssGet(Cur, el[m])]]>>
                   ELSE IF op = "hide" THEN <<>> ELSE preHide
    /\ UNCHANGED <<elPath, template, anchors, itemsConfig, viewMap, itemIdMap>>

\* the ids the call may allocate still fit, and no element is full
Room(n) ==
    /\ currentId + (IF isArray(items[n]) THEN Len(items[n]) ELSE 0) <= MaxId
    /\ \A e \in DOMAIN dom : Len(dom[e].copies) < MaxCopies

Render(n) ==
    /\ Room(n)
    /\ \E cq \in IF n = "r" THEN {NoQuery, Path("#none")} ELSE {NoQuery},
          hv \in HookResults(Subtree(n), {"render", "clear"}) :
         Done(render(Cur, n, cq, hv), "render", n, cq)

Clear(n) ==
    /\ \E hv \in HookResults(Subtree(n), {"clear"}) : Done(clear(Cur, n, hv), "clear", n, NoQuery)

Show(n) ==
    /\ \E hv \in HookResults(Subtree(n), {"show"}) : Done(show(Cur, n, hv), "show", n, NoQuery)

Hide(n) ==
    \E hv \in HookResults(Subtree(n), {"hide"}) : Done(hide(Cur, n, hv), "hide", n, NoQuery)

Disable(n) ==
    /\ \E hv \in HookResults(Subtree(n), {"disable"}) : Done(disable(Cur, n, hv), "disable", n, NoQuery)

Enable(n) ==
    /\ \E hv \in HookResults(Subtree(n), {"enable"}) : Done(enable(Cur, n, hv), "enable", n, NoQuery)

Destroy(n) ==
    /\ \E hv \in HookResults(Subtree(n), {"destroy", "clear"}) :
         Done(destroy(Cur, n, hv), "destroy", n, NoQuery)

SetTemplate(n) ==
    /\ n = "r"
    /\ \E name \in {"Narrow", "Blank", "NoData", "Missing"} :
         Done(setTemplate(Cur, n, name), "setTemplate", n, Path(name))

SetData(n) ==
    /\ n = "r"
    /\ \E d \in DataValues \ {"null"} : Done(setData(Cur, n, d), "setData", n, Path(d))

SetItems(n) ==
    /\ n = "r"
    /\ \E its \in {<<>>} : Done(setItems(Cur, n, its), "setItems", n, NoQuery)

\* the views the application calls: the root and, when it has children, its first
\* child, r.getItem(0)
Held == IF template["r"] = "Page" THEN {"r", "a"} ELSE {"r"}

\* the application takes note of what the call did and goes on
Proceed ==
    /\ last # Idle
    /\ last' = Idle
    /\ log' = <<>>
    /\ preHide' = IF last.op = "hide" THEN preHide ELSE <<>>
    /\ UNCHANGED <<elPath, template, anchors, rendered, el, tpl, templateData, displayCssValue,
                   items, destroyed, dom, currentId, calls, itemsConfig, viewMap, itemIdMap>>

Next ==
    \/ Proceed
    \/ \E n \in Held :
           \/ Render(n)
           \/ Clear(n)
           \/ Show(n)
           \/ Hide(n)
           \/ Disable(n)
           \/ Enable(n)
           \/ Destroy(n)
           \/ SetTemplate(n)
           \/ SetData(n)
           \/ SetItems(n)

Spec == Init /\ [][Next]_vars

\* ------------------------------------------------- the root is constructed
\* the items a root may declare: lists of at most MaxItems entries
TypeNames == ViewNames \cup {"Missing"}
ItemEntries ==
    {StringItem(cl) : cl \in TypeNames}
      \cup {ObjectItem(cl, id) : cl \in TypeNames, id \in {Undefined, "main"}}
      \cup {NumberItem}
NamedOnce(list) ==
    \A i \in DOMAIN list, j \in DOMAIN list :
        (i < j /\ list[i].cl \in ViewNames) => list[i].cl # list[j].cl
ItemsConfigs ==
    {NullConfig} \cup {StringConfig(cl) : cl \in TypeNames}
      \cup {ArrayConfig(l) : l \in {x \in UNION {[1..m -> ItemEntries] : m \in 0..MaxItems} :
                                       NamedOnce(x)}}

\* new Root(): initPrivates and initPublics have run, _createItems has not; until
\* it has, this.items holds the declaration
InitItems ==
    /\ itemsConfig \in ItemsConfigs
    /\ viewMap = EmptyMap
    /\ itemIdMap = EmptyMap
    /\ items = [n \in Nodes |-> NullItems]
    /\ elPath = [n \in Nodes |-> IF n = "r" THEN "#root" ELSE AutoIncrementId]
    /\ template = [n \in Nodes |-> "Leaf"]
    /\ anchors = 1
    /\ rendered = [n \in Nodes |-> FALSE]
    /\ el = [n \in Nodes |-> <<>>]
    /\ tpl = [n \in Nodes |-> ""]
    /\ templateData = [n \in Nodes |-> "null"]
    /\ displayCssValue = [n \in Nodes |-> "block"]
    /\ destroyed = [n \in Nodes |-> FALSE]
    /\ dom = [e \in AnchorIds |-> [copies |-> <<>>, disp |-> RootDisplay]]
    /\ calls = 0
    /\ currentId = 0
    /\ last = Idle
    /\ log = <<>>
    /\ preHide = <<>>

\* init(): _createItems() and afterInit(); when _createItems raises, new does not
\* return and nobody holds the view
Construct ==
    /\ calls = 0
    /\ calls' = 1
    /\ LET c == createItems(itemsConfig) IN
         /\ items' = IF c.thrown THEN items ELSE [items EXCEPT !["r"] = c.items]
         /\ viewMap' = c.viewMap
         /\ itemIdMap' = c.itemIdMap
         /\ log' = c.log
         /\ tpl' = IF c.thrown THEN tpl ELSE [n \in Nodes |-> TemplateString(template[n])]
         /\ last' = [op |-> "init", node |-> "r", arg |-> NoQuery,
                     ret |-> IF c.thrown THEN "throw" ELSE "this"]
    /\ UNCHANGED <<elPath, template, anchors, rendered, el, templateData, displayCssValue,
                   destroyed, dom, currentId, preHide, itemsConfig>>

\* root.getItem(id), on a root that new has returned
GetItem(id) ==
    /\ calls = 1
    /\ ~(last.op = "init" /\ last.ret = "throw")
    /\ last' = [op |-> "getItem", node |-> "r", arg |-> id,
                ret |-> getItem(items["r"], viewMap, itemIdMap, id)]
    /\ log' = <<>>
    /\ UNCHANGED <<elPath, template, anchors, rendered, el, tpl, templateData, displayCssValue,
                   items, destroyed, dom, currentId, calls, preHide,
                   itemsConfig, viewMap, itemIdMap>>

NextItems ==
    \/ Construct
    \/ \E k \in TypeNames \cup {"main", "side", ObjectKey} : GetItem(Key(k))
    \/ \E i \in 0..MaxItems : GetItem(Index(i))

SpecItems == InitItems /\ [][NextItems]_vars

\* =================================================================== claims
\* the names of the hooks and of the notifications of an operation
BeforeHook(op) ==
    CASE op = "render" -> "onBeforeRender" [] op = "clear" -> "onBeforeClear"
      [] op = "show" -> "onBeforeShow" [] op = "hide" -> "onBeforeHide"
      [] op = "disable" -> "onBeforeDisable" [] op = "enable" -> "onBeforeEnable"
      [] OTHER -> "onBeforeDestroy"
AfterHook(op) ==
    CASE op = "render" -> "onAfterRender" [] op = "clear" -> "onAfterClear"
      [] op = "show" -> "onAfterShow" [] op = "hide" -> "onAfterHide"
      [] op = "disable" -> "onAfterDisable" [] op = "enable" -> "onAfterEnable"
      [] OTHER -> "onAfterDestroy"

Has(l, e) == \E i \in DOMAIN l : l[i] = e
Pos(l, e) == CHOOSE i \in DOMAIN l : l[i] = e
Final(l) == l[Len(l)]
Refusing(v) == v \notin {"", Undefined, "true"}
\* the hook name of view n returned a non-approving value during the call
Refused(l, n, name) == \E i \in DOMAIN l : l[i][1] = n /\ l[i][2] = name /\ Refusing(l[i][3])
NoRefusal(l) ==
    \A i \in DOMAIN l : l[i][2] \in {BeforeHook(op) : op \in Ops} => ~Refusing(l[i][3])
\* the elements of the page with their content
Document == [e \in {x \in DOMAIN dom : Attached(dom, x)} |-> dom[e]]
\* the render of view n ran to its end
Succeeded(l, n) == Has(l, <<n, "render", "">>)

C3_OneCopy ==
    (last.op = "render" /\ Succeeded(log, last.node)) =>
        \A e \in Range(el[last.node]) :
            /\ Len(dom[e].copies) = 1
            /\ dom[e].copies[1].tpl = tpl[last.node]
            /\ dom[e].copies[1].data = Markup(tpl[last.node], templateData[last.node]).data

\* C4 (as claimed): a render() of a rendered view that fails on its template
\* string, its data or a templating fault leaves rendered and the page as they were.
C4_FailedRenderKeepsState ==
    [][(/\ last'.op = "render"
        /\ rendered[last'.node]
        /\ last'.ret = "false"
        /\ Final(log') \in {<<last'.node, "error", "invalid template data">>,
                            <<last'.node, "error", "template fault">>})
         => rendered' = rendered /\ Document' = Document]_vars

C6_NullTemplateRenders ==
    (/\ last.op = "render"
     /\ last.arg = NoQuery
     /\ template[last.node] = "null"
     /\ tpl[last.node] = ""
     /\ ~isArray(items[last.node])
     /\ elPath[last.node] = "#root"
     /\ anchors = 1
     /\ NoRefusal(log))
      => /\ last.ret = "this"
         /\ rendered[last.node]
         /\ \A i \in DOMAIN log : log[i][2] # "error"

\* the render of view n got as far as appending its markup
Appended(l, n) ==
    \E i \in DOMAIN l :
        /\ l[i][1] = n /\ l[i][2] = "onBeforeRender" /\ ~Refusing(l[i][3])
        /\ \A j \in DOMAIN l :
              j > i => ~(l[j][1] = n /\ l[j][2] = "error") /\ l[j] # <<n, "throw", "TypeError">>

C9_ItemsEmpty ==
    (/\ last.op = "destroy"
     /\ Final(log) = <<last.node, "destroy", "">>
     /\ isArray(items[last.node]))
      => Len(items[last.node]) = 0

\* C10: when hide() and then show() are called on a rendered view and every
\* hook approves, the view and every view below it that was rendered show the
\* display value they showed before the hide().
C10_HideShowRestores ==
    (/\ last.op = "show"
     /\ preHide # <<>>
     /\ preHide[1].node = last.node
     /\ Final(log) = <<last.node, "show", "">>
     /\ NoRefusal(log))
      => \A m \in Subtree(last.node) :
            preHide[1].rendered[m] => cssGet(Cur, el[m]) = preHide[1].display[m]

\* the root, shown as a grid with a rendered item, was hidden and shown again
C10_Witness ==
    /\ last.op = "show"
    /\ last.node = "r"
    /\ preHide # <<>>
    /\ preHide[1].node = "r"
    /\ preHide[1].display["r"] = "grid"
    /\ preHide[1].rendered["a"]
    /\ Final(log) = <<"r", "show", "">>
    /\ NoRefusal(log)

Instantiable(e) == e.type \in {"string", "object"} /\ e.cl \in ViewNames
\* the views the entries of a list yield, in the order of the list
Instances(list) ==
    LET made == SelectSeq(list, Instantiable) IN [i \in DOMAIN made |-> New(made[i].cl)]

\* C12 (as claimed): the construction of a view that declares items does not
\* raise; its items are the views of the entries that are well formed and name a
\* known class, in the order of the declaration, and every other entry is
\* answered by one diagnostic notification.
C12_BadEntriesSkipped ==
    (last.op = "init" /\ itemsConfig.kind # "null") =>
        /\ last.ret = "this"
        /\ items["r"] = Instances(itemsConfig.of)
        /\ Len(SelectSeq(log, LAMBDA e : e[2] = "debug"))
              = Len(itemsConfig.of) - Len(Instances(itemsConfig.of))

\* C13 (as claimed): getItem of a string returns a child whose itemId is the
\* string if there is one, else the child declared with that class name (as a
\* bare name or in a configuration) if there is one, else null; getItem of a
\* number n returns the n-th child, or null when there is none, also on a view
\* that declares no items.
C13_GetItemFinds ==
    last.op = "getItem" =>
        LET made == SelectSeq(itemsConfig.of, Instantiable)
            k == last.arg[1]
            byItemId == {New(e.cl) : e \in {x \in Range(made) : itemIdOf(x) = k}}
            byType == {New(e.cl) : e \in {x \in Range(made) : x.cl = k}}
        IN IF k # "#number"
           THEN IF byItemId # {} THEN last.ret \in byItemId
                ELSE IF byType # {} THEN last.ret \in byType
                ELSE last.ret = "null"
           ELSE IF last.arg[2] < Len(made) THEN last.ret = New(made[last.arg[2] + 1].cl)
                ELSE last.ret = "null"

\* C14 (as claimed): a render() that ends on a missing elPath, an unknown
\* template or an empty element handle returns false, emits no 'beforerender',
\* calls no hook and leaves rendered, the element handle, the page, the template
\* string and the data of the view as they were.
C14_FailFastKeepsState ==
    [][(/\ last'.op = "render"
        /\ Final(log') \in {<<last'.node, "error", "elPath is not set">>,
                            <<last'.node, "error", "invalid template">>,
                            <<last'.node, "error", "root element not found">>})
         => /\ last'.ret = "false"
            /\ \A i \in DOMAIN log' : log'[i][2] \notin {"beforerender", "onBeforeRender"}
            /\ rendered' = rendered
            /\ el' = el
            /\ Document' = Document
            /\ tpl' = tpl
            /\ templateData' = templateData]_vars

\* C15 (as claimed): a render() that finds more than one element for the view
\* emits 'error' and stops there: it returns false, 'beforerender' is not
\* emitted, no markup is appended and the view is not marked rendered.
C15_AmbiguousAnchorAborts ==
    [][(last'.op = "render" /\ Has(log', <<last'.node, "error", "duplicate ids">>))
         => /\ last'.ret = "false"
            /\ ~Has(log', <<last'.node, "beforerender", "">>)
            /\ ~Succeeded(log', last'.node)
            /\ rendered' = rendered
            /\ Document' = Document]_vars

\* C16 (as claimed): when a clear() of a rendered view has run to its end (the
\* view is no longer rendered), none of its items is rendered.
C16_NoChildOutlivesParent ==
    (/\ last.op = "clear"
     /\ Has(log, <<last.node, "clear", "">>)
     /\ ~rendered[last.node]
     /\ isArray(items[last.node]))
      => \A i \in DOMAIN items[last.node] :
            items[last.node][i] # Hole => ~rendered[items[last.node][i]]

\* C17 (as claimed): a view configured with data D that was never given
\* setData renders its template with D: when its hooks approve and its element
\* is found, render() succeeds and the markup it appends carries D.
C17_ConfiguredDataRendered ==
    \A n \in Nodes :
        (/\ last.op = "render"
         /\ last.node = n
         /\ data[n] # "null"
         /\ templateData[n] = "null"
         /\ el[n] # <<>>
         /\ NoRefusal(log))
          => /\ Succeeded(log, n)
             /\ \A e \in Range(el[n]) :
                   /\ Len(dom[e].copies) >= 1
                   /\ dom[e].copies[Len(dom[e].copies)].data = data[n]

\* the identifiers the allocator returned during a call
Allocations(l) == {i \in DOMAIN l : l[i][2] = "_id"}

\* C18 (as claimed): a render() that succeeds on a view with elPath 'auto'
\* has allocated exactly one identifier for it, and a render that succeeds on a
\* view of that kind that was rendered on a resolved element leaves the view on
\* the same element.
C18_RerenderKeepsAnchor ==
    [][last'.op = "render" =>
         /\ (elPath[last'.node] = AutoIncrementId /\ Succeeded(log', last'.node))
               => Cardinality(Allocations(log')) = 1
         /\ \A n \in Nodes :
               (/\ elPath[n] = AutoIncrementId
                /\ rendered[n]
                /\ el[n] # <<>>
                /\ Succeeded(log', n))
                 => el'[n] = el[n]]_vars

\* C19: a show(), hide(), enable(), disable() or clear() called on a view that
\* is not rendered does nothing: no hook is called and nothing is emitted (so
\* no item is visited), and the state of the view and of every view below it,
\* the page and the counter are what they were.
C19_UnrenderedNoOp ==
    [][(last'.op \in {"show", "hide", "enable", "disable", "clear"} /\ ~rendered[last'.node])
         => /\ log' = <<>>
            /\ UNCHANGED <<rendered, el, tpl, templateData, displayCssValue, items,
                           destroyed, dom, currentId>>]_vars

\* hide() was called on a root that is not rendered while one of its items is
C19_Witness ==
    /\ last.op = "hide"
    /\ last.node = "r"
    /\ ~rendered["r"]
    /\ rendered["a"]
    /\ log = <<>>

\* C20 (as claimed): a view that is rendered has an element, the element is in
\* the page, and it holds markup the view has appended.
C20_RenderedHasAnchorAndMarkup ==
    \A n \in Nodes :
        rendered[n] => /\ el[n] # <<>>
                       /\ \A e \in Range(el[n]) :
                             /\ e \in DOMAIN dom
                             /\ Attached(dom, e)
                             /\ Len(dom[e].copies) >= 1

\* the items of view n that are views
Children(n) == IF isArray(items[n]) THEN Range(items[n]) \ {Hole} ELSE {}
\* in the order of a call, every e comes before every f
Before(l, e, f) == \A i \in DOMAIN l, j \in DOMAIN l : (l[i] = e /\ l[j] = f) => i < j
\* what an operation of view n does to the view itself once its items are done
OwnWrites(n) ==
    {<<n, "children.remove", "">>, <<n, "css.none", "">>, <<n, "undelegateEvents", "">>}
OwnEnd(n, op) == {<<n, AfterHook(op), "">>, <<n, op, "">>}
\* a call of op on a rendered view in which every hook approved and nothing was raised
Teardown(op) ==
    /\ last'.op = op
    /\ rendered[last'.node]
    /\ NoRefusal(log')
    /\ last'.ret # "throw"

\* C21 (as claimed): in a clear(), hide(), disable() or destroy() of a rendered
\* view whose hooks approve, the same operation of every item has ended before
\* the view removes its content, blanks its display, un-delegates its events,
\* calls its after-hook or emits its completion notification.
C21_ChildrenBeforeOwnEffects ==
    [][\A op \in {"clear", "hide", "disable", "destroy"} :
         Teardown(op) =>
            \A n \in Nodes : \A c \in Children(n) :
                Has(log', <<n, op, "">>)
                  => /\ (rendered[c] \/ op = "destroy") => Has(log', <<c, op, "">>)
                     /\ \A e \in OwnWrites(n) \cup OwnEnd(n, op) :
                           Before(log', <<c, op, "">>, e)]_vars

\* C21 (amended): in a clear(), hide() or disable() of a rendered view whose
\* hooks approve, the same operation of every rendered item has ended before the
\* view removes its content, blanks its display, calls its after-hook or emits
\* its completion notification.  In a destroy() the view first clears itself
\* (its items are cleared, then its own content is removed) and only then
\* destroys its items: the destroy of every item begins after the view's own
\* clear has ended and ends before the view un-delegates its events, calls its
\* after-hook and emits 'destroy'.
C21_TeardownOrder ==
    [][/\ \A op \in {"clear", "hide", "disable"} :
            Teardown(op) =>
               \A n \in Nodes : \A c \in Children(n) :
                   Has(log', <<n, op, "">>)
                     => /\ rendered[c] => Has(log', <<c, op, "">>)
                        /\ \A e \in OwnWrites(n) \cup OwnEnd(n, op) :
                              Before(log', <<c, op, "">>, e)
       /\ Teardown("destroy") =>
               \A n \in Nodes : \A c \in Children(n) :
                   Has(log', <<n, "destroy", "">>)
                     => /\ Has(log', <<c, "destroy", "">>)
                        /\ \A e \in {<<n, "undelegateEvents", "">>} \cup OwnEnd(n, "destroy") :
                              Before(log', <<c, "destroy", "">>, e)
                        /\ rendered[n] =>
                              /\ Has(log', <<n, "children.remove", "">>)
                              /\ rendered[c] => Has(log', <<c, "clear", "">>)
                              /\ Before(log', <<c, "clear", "">>, <<n, "children.remove", "">>)
                              /\ Before(log', <<n, "clear", "">>, <<c, "beforedestroy", "">>)]_vars

\* a destroy() of the rendered root with two rendered items ran to its end
C21_Witness ==
    /\ last.op = "destroy"
    /\ last.node = "r"
    /\ NoRefusal(log)
    /\ Has(log, <<"a", "clear", "">>) /\ Has(log, <<"b", "clear", "">>)
    /\ Has(log, <<"r", "children.remove", "">>)
    /\ Has(log, <<"a", "destroy", "">>) /\ Has(log, <<"b", "destroy", "">>)
    /\ Final(log) = <<"r", "destroy", "">>

\* what the render of a view notes in the order of a call
RenderNames == {"beforerender", "onBeforeRender", "error", "onAfterRender", "render"}
RenderSteps(l, c) == {i \in DOMAIN l : l[i][1] = c /\ l[i][2] \in RenderNames}
\* the element in the i-th placeholder of the elements h, in document order
InSlot(d, h, i) == LET pl == find(d, h)[i] IN d[pl[1]].copies[pl[2]].slots[pl[3]]

C23_RenderedParentRenderedChildren ==
    \A n \in Nodes :
        (/\ last.op = "render"
         /\ last.node = n
         /\ last.ret = "this"
         /\ rendered[n]
         /\ Succeeded(log, n)
         /\ isArray(items[n]))
          => /\ \A c \in Children(n) : rendered[c] /\ el[c] # <<>>
             /\ \A c \in Children(n), d \in Children(n) :
                   c # d => Range(el[c]) \cap Range(el[d]) = {}

\* C24 (as claimed): a view whose destroy() was approved and ran to its end is
\* not rendered, then and in every later state, whatever is called on it.
C24_DestroyedStaysUnrendered == \A n \in Nodes : destroyed[n] => ~rendered[n]

\* C25 (as claimed): the display value a view keeps for show() is never 'none',
\* and a show() of a rendered view that ran to its end leaves the view displayed.
C25_RestoreValueVisible ==
    /\ \A n \in Nodes : displayCssValue[n] # "none"
    /\ (last.op = "show" /\ Has(log, <<last.node, "show", "">>) /\ el[last.node] # <<>>)
          => cssGet(Cur, el[last.node]) # "none"

====
